---- MODULE Spec2Model ----
(***************************************************************************)
(* Model of webgwas-backend's process-wide state (src/src/lib.rs):         *)
(* the ResultsCache, a bounded LRU index of WebGWASResult values whose     *)
(* eviction deletes the evicted result's artifact file, used directly      *)
(* (specification Spec) and behind AppState's Mutex by several threads     *)
(* (specification SpecConc).                                               *)
(***************************************************************************)
EXTENDS Naturals, Sequences, FiniteSets, TLC

\* ------------------------------------------------------------------ bounds
NumIds == 4
MaxCapacity == 2
NumThreads == 2
MaxStale == 2
MaxCohorts == 2
NumCohortIds == 3
MaxRows == 2

Ids == 1..NumIds
Capacities == 0..MaxCapacity
Threads == 1..NumThreads

\* ------------------------------------------------------- values and options
\* Option<T>: None is the empty sequence, Some(x) the one-element sequence.
None == <<>>
Some(x) == <<x>>
Unwrapped(o) == o[1]

\* The artifact of request id lives at one path derived from the id; a path is
\* represented by the id it is derived from.
PathOf(id) == id
\* A second path for the same id: where a result computed again for the id
\* has its own artifact.
RerunPathOf(id) == NumIds + id
Paths == {PathOf(id) : id \in Ids} \cup {RerunPathOf(id) : id \in Ids}

\* WebGWASResult: the request identifier and the optional local artifact path
\* (the rest of the payload plays no part in the cache's behaviour).
WebGWASResult == [request_id : Ids, local_result_file : {None} \cup {Some(p) : p \in Paths}]
Results == {r \in WebGWASResult :
              r.local_result_file = None \/ r.local_result_file = Some(PathOf(r.request_id))}
\* Results that each carry an artifact, at one or the other path of their id.
OwnResults == {r \in WebGWASResult :
                 \/ r.local_result_file = Some(PathOf(r.request_id))
                 \/ r.local_result_file = Some(RerunPathOf(r.request_id))}

\* --------------------------------------------------------- hashlru::Cache
\* A cache is [capacity, entries]; entries is ordered from the least recently
\* used (index 1) to the most recently used (last), each entry [k, v].
Keys(c) == {c.entries[i].k : i \in 1..Len(c.entries)}
IndexOf(c, k) == CHOOSE i \in 1..Len(c.entries) : c.entries[i].k = k
Without(c, k) == SelectSeq(c.entries, LAMBDA e : e.k # k)

hashlru_new(capacity) == [capacity |-> capacity, entries |-> <<>>]

hashlru_is_full_early(c) == Len(c.entries) + 1 >= c.capacity
hashlru_is_full(c) == Len(c.entries) = c.capacity

hashlru_lru(c) == IF c.entries = <<>> THEN None ELSE Some(c.entries[1].k)

\* remove(&k) -> Option<V>
hashlru_remove(c, k) ==
    IF k \in Keys(c)
    THEN [cache |-> [c EXCEPT !.entries = Without(c, k)],
          value |-> Some(c.entries[IndexOf(c, k)].v)]
    ELSE [cache |-> c, value |-> None]

\* insert(k, v): replaces the value of a present key, otherwise drops the least
\* recently used entry when the cache is full; the key becomes the most
\* recently used.  (With capacity 0 nothing can be stored.)
hashlru_insert_oldest(c, k, v) ==
    LET rest == Without(c, k)
        room == IF Len(rest) >= c.capacity /\ rest # <<>> THEN Tail(rest) ELSE rest
    IN  IF c.capacity = 0 THEN c
        ELSE [c EXCEPT !.entries = <<[k |-> k, v |-> v]>> \o room]
hashlru_insert(c, k, v) ==
    LET rest == Without(c, k)
        room == IF Len(rest) >= c.capacity /\ rest # <<>> THEN Tail(rest) ELSE rest
    IN  IF c.capacity = 0 THEN c
        ELSE [c EXCEPT !.entries = Append(room, [k |-> k, v |-> v])]

\* get(&k) / get_mut(&k): a hit makes the key the most recently used.
hashlru_get(c, k) ==
    IF k \in Keys(c)
    THEN LET e == c.entries[IndexOf(c, k)]
         IN  [cache |-> [c EXCEPT !.entries = Append(Without(c, k), e)],
              value |-> Some(e.v)]
    ELSE [cache |-> c, value |-> None]

\* ------------------------------------------------------------- filesystem
\* std::fs::remove_file: fails when the file is absent or on an I/O error.
remove_file_unlinked(disk, path, io_error) == [ok |-> ~io_error, disk |-> disk]
remove_file(disk, path, io_error) ==
    IF path \in disk /\ ~io_error
    THEN [ok |-> TRUE, disk |-> disk \ {path}]
    ELSE [ok |-> FALSE, disk |-> disk]

\* ----------------------------------------------------------- ResultsCache
ResultsCache_new(capacity) == hashlru_new(capacity)

\* The outcome of one call of insert: the cache and the disk it leaves, how it
\* ended ("ok" or "panic"), and what the eviction did.
Outcome(c, disk, ret, evicted, attempted, failed) ==
    [cache |-> c, disk |-> disk, ret |-> ret, evicted |-> evicted,
     rm_attempted |-> attempted, rm_failed |-> failed]

\* line 162: self.id_to_result.insert(result.request_id, result)
Store(c, disk, result, evicted, attempted) ==
    Outcome(hashlru_insert(c, result.request_id, result), disk, "ok",
            evicted, attempted, FALSE)

\* lines 158-162: remove_file(file_path)...unwrap(), then the insertion.
DeleteAndStore_swallow(c, disk, lru_value, result, io_error) ==
    LET rm == remove_file(disk, Unwrapped(lru_value.local_result_file), io_error)
    IN  [Store(c, rm.disk, result, Some(lru_value), TRUE) EXCEPT !.rm_failed = ~rm.ok]
DeleteAndStore(c, disk, lru_value, result, io_error) ==
    LET rm == remove_file(disk, Unwrapped(lru_value.local_result_file), io_error)
    IN  IF ~rm.ok
        THEN Outcome(c, rm.disk, "panic", Some(lru_value), TRUE, TRUE)
        ELSE Store(c, rm.disk, result, Some(lru_value), TRUE)

\* lines 155-161: the eviction of the least recently used entry.
Evict_delete_first(self, disk, result, io_error) ==
    IF hashlru_lru(self) = None
    THEN Outcome(self, disk, "panic", None, FALSE, FALSE)
    ELSE LET lru_key == Unwrapped(hashlru_lru(self))
             lru_value == self.entries[IndexOf(self, lru_key)].v
         IN  IF lru_value.local_result_file = None
             THEN Outcome(self, disk, "panic", Some(lru_value), FALSE, FALSE)
             ELSE LET rm == remove_file(disk, Unwrapped(lru_value.local_result_file),
                                        io_error)
                  IN  IF ~rm.ok
                      THEN Outcome(self, rm.disk, "panic", Some(lru_value), TRUE, TRUE)
                      ELSE Store(hashlru_remove(self, lru_key).cache, rm.disk, result,
                                 Some(lru_value), TRUE)
Evict(self, disk, result, io_error) ==
    IF hashlru_lru(self) = None
    THEN Outcome(self, disk, "panic", None, FALSE, FALSE)
    ELSE LET lru_key == Unwrapped(hashlru_lru(self))
             removed == hashlru_remove(self, lru_key)
         IN  IF removed.value = None
             THEN Outcome(removed.cache, disk, "panic", None, FALSE, FALSE)
             ELSE LET lru_value == Unwrapped(removed.value)
                  IN  IF lru_value.local_result_file = None
                      THEN Outcome(removed.cache, disk, "panic",
                                   Some(lru_value), FALSE, FALSE)
                      ELSE DeleteAndStore(removed.cache, disk, lru_value,
                                          result, io_error)

ResultsCache_insert_unbounded(self, disk, result, io_error) ==
    Outcome([self EXCEPT !.entries = Append(Without(self, result.request_id),
                              [k |-> result.request_id, v |-> result])],
            disk, "ok", None, FALSE, FALSE)
ResultsCache_insert(self, disk, result, io_error) ==
    IF hashlru_is_full(self)
    THEN Evict(self, disk, result, io_error)
    ELSE Store(self, disk, result, None, FALSE)

ResultsCache_get_peek(self, id) ==
    IF id \in Keys(self)
    THEN [cache |-> self, value |-> Some(self.entries[IndexOf(self, id)].v)]
    ELSE [cache |-> self, value |-> None]
ResultsCache_get(self, id) == hashlru_get(self, id)

ResultsCache_get_mut_or_default(self, id) ==
    IF id \in Keys(self) THEN hashlru_get(self, id)
    ELSE [cache |-> hashlru_insert(self, id, [request_id |-> id, local_result_file |-> None]),
          value |-> None]
ResultsCache_get_mut(self, id) == hashlru_get(self, id)

\* ------------------------------------------------------------------ state
VARIABLES
    id_to_result,   \* ResultsCache.id_to_result, the hashlru cache
    files,          \* the artifact files present in the results directory
    panicked,       \* an insert has panicked: the cache is no longer used
    recency,        \* history: the identifiers, in the order of their last touch
    last,           \* history: the last call and what it did
    mutex,          \* AppState.results' Mutex: its owner (0: free) and poison flag
    pc,             \* where each thread is
    arg,            \* per thread: the result it inserts, or the value it has read
    lru_value,      \* per thread: the entry its insert has removed from the index
    called,         \* history: the insert calls made, [thread, result]
    clean,          \* history: those calls were for distinct ids, at most capacity many
    boot,           \* AppState::new: where it is, its locals, how it ended
    rootfs          \* the paths present under the root directory

seqVars == <<panicked, recency, last>>
concVars == <<mutex, pc, arg, lru_value, called, clean>>
bootVars == <<boot, rootfs>>
cacheVars == <<id_to_result, files, seqVars, concVars>>
vars == <<id_to_result, files, panicked, recency, last,
          mutex, pc, arg, lru_value, called, clean, boot, rootfs>>

\* The shape of the state: the cache and the disk, the Mutex and the threads.
CacheEntry == [k : Ids, v : Results \cup OwnResults]
CallRecord == [op : {"new", "insert", "get", "get_mut"}, id : Ids \cup {0},
               result : {None} \cup {Some(r) : r \in Results \cup OwnResults},
               ret : {"ok", "panic", "found", "notfound"},
               was_full : BOOLEAN, was_present : BOOLEAN,
               evicted : {None} \cup {Some(r) : r \in Results \cup OwnResults},
               rm_attempted : BOOLEAN, rm_failed : BOOLEAN]
TypeOK ==
    /\ id_to_result.capacity \in Capacities
    /\ \A i \in 1..Len(id_to_result.entries) :
          /\ id_to_result.entries[i] \in CacheEntry
          /\ id_to_result.entries[i].v.request_id = id_to_result.entries[i].k
          /\ \A j \in 1..Len(id_to_result.entries) :
                id_to_result.entries[i].k = id_to_result.entries[j].k => i = j
    /\ files \subseteq Paths
    /\ panicked \in BOOLEAN
    /\ \A i \in 1..Len(recency) : recency[i] \in Ids
    /\ last \in CallRecord
    /\ mutex \in [owner : Threads \cup {0}, poisoned : BOOLEAN]
    /\ pc \in [Threads -> {"idle", "insert", "remove_file", "store", "return",
                            "reading", "panicked"}]
    /\ \A t \in Threads :
          /\ arg[t] \in {None} \cup {Some(r) : r \in Results}
          /\ lru_value[t] \in {None} \cup {Some(r) : r \in Results}
          /\ (pc[t] \in {"insert", "remove_file", "store", "return", "reading"})
                => mutex.owner = t
    /\ called \subseteq [thread : Threads, result : Results]
    /\ clean \in BOOLEAN

\* The artifact file a result carries, as a set of paths (empty without one).
ArtifactOf(result) ==
    {result.local_result_file[i] : i \in 1..Len(result.local_result_file)}

Touch(seq, id) == Append(SelectSeq(seq, LAMBDA x : x # id), id)

NoCall == [op |-> "new", id |-> 0, result |-> None, ret |-> "ok", was_full |-> FALSE,
           was_present |-> FALSE, evicted |-> None,
           rm_attempted |-> FALSE, rm_failed |-> FALSE]

\* The state of a constructed cache that no thread has used yet.
InitCache(capacity) ==
    /\ id_to_result = ResultsCache_new(capacity)
    /\ files = {}
    /\ panicked = FALSE
    /\ recency = <<>>
    /\ last = NoCall
    /\ mutex = [owner |-> 0, poisoned |-> FALSE]
    /\ pc = [t \in Threads |-> "idle"]
    /\ arg = [t \in Threads |-> None]
    /\ lru_value = [t \in Threads |-> None]
    /\ called = {}
    /\ clean = TRUE

\* AppState::new has returned the state; its cache is in use.
Booted == [pc |-> "done", outcome |-> "ok"]

Init ==
    /\ \E capacity \in Capacities : InitCache(capacity)
    /\ boot = Booted
    /\ rootfs = {}

\* The worker has written the result's artifact (if it has one) and hands the
\* result to insert.
Insert(result, io_error) ==
    /\ ~panicked
    /\ LET written == files \cup ArtifactOf(result)
       IN  \E out \in {ResultsCache_insert(id_to_result, written, result, io_error)} :
             /\ id_to_result' = out.cache
             /\ files' = out.disk
             /\ panicked' = (out.ret = "panic")
             /\ recency' = IF out.ret = "ok" THEN Touch(recency, result.request_id)
                           ELSE recency
             /\ last' = [op |-> "insert", id |-> result.request_id,
                         result |-> Some(result), ret |-> out.ret,
                         was_full |-> Len(id_to_result.entries) = id_to_result.capacity,
                         was_present |-> result.request_id \in Keys(id_to_result),
                         evicted |-> out.evicted,
                         rm_attempted |-> out.rm_attempted,
                         rm_failed |-> out.rm_failed]
    /\ UNCHANGED concVars
    /\ UNCHANGED bootVars

Lookup(op, found, id) ==
    /\ id_to_result' = found.cache
    /\ recency' = IF found.value # None THEN Touch(recency, id) ELSE recency
    /\ last' = [NoCall EXCEPT !.op = op, !.id = id,
                  !.ret = IF found.value = None THEN "notfound" ELSE "found",
                  !.was_full = Len(id_to_result.entries) = id_to_result.capacity,
                  !.was_present = id \in Keys(id_to_result)]
    /\ UNCHANGED <<files, panicked>>
    /\ UNCHANGED concVars
    /\ UNCHANGED bootVars

Get(id) ==
    /\ ~panicked
    /\ \E found \in {ResultsCache_get(id_to_result, id)} : Lookup("get", found, id)

GetMut(id) ==
    /\ ~panicked
    /\ \E found \in {ResultsCache_get_mut(id_to_result, id)} : Lookup("get_mut", found, id)

Next ==
    \/ \E result \in Results, io_error \in BOOLEAN : Insert(result, io_error)
    \/ \E id \in Ids : Get(id)
    \/ \E id \in Ids : GetMut(id)

Spec == Init /\ [][Next]_vars

\* The inserts alone, of results that each carry their own artifact.
NextOwn ==
    \E result \in OwnResults, io_error \in BOOLEAN : Insert(result, io_error)

SpecOwn == Init /\ [][NextOwn]_vars

\* ------------------------------------------- the cache behind AppState's Mutex
\* Arc<Mutex<ResultsCache>>: lock() blocks while the mutex is owned and returns
\* an error once a thread has panicked while holding it.
MutexLockable_unpoisoned(m) == m.owner = 0
MutexLockable_shared(m) == ~m.poisoned
MutexLockable(m) == m.owner = 0 /\ ~m.poisoned

\* A worker thread has computed a result and written its artifact, if any:
\* results.lock().unwrap().insert(result); the lock is taken, insert begins.
AcquireInsert(t, result) ==
    /\ pc[t] = "idle"
    /\ MutexLockable(mutex)
    /\ files' = files \cup ArtifactOf(result)
    /\ mutex' = [mutex EXCEPT !.owner = t]
    /\ pc' = [pc EXCEPT ![t] = "insert"]
    /\ arg' = [arg EXCEPT ![t] = Some(result)]
    /\ LET fresh == /\ \A c \in called : c.result.request_id # result.request_id
                    /\ Cardinality(called) + 1 <= id_to_result.capacity
       IN  /\ clean' = (clean /\ fresh)
           /\ called' = IF clean /\ fresh
                         THEN called \cup {[thread |-> t, result |-> result]}
                         ELSE {}
    /\ UNCHANGED <<id_to_result, lru_value>>
    /\ UNCHANGED seqVars
    /\ UNCHANGED bootVars

\* A panic while the guard is alive: the guard's drop poisons the mutex.
PanicLocked(t) ==
    /\ mutex' = [owner |-> 0, poisoned |-> TRUE]
    /\ pc' = [pc EXCEPT ![t] = "panicked"]

\* lines 154-157 under the lock: is_full, lru, remove from the index, expect
\* the artifact path.
InsertEvict(t) ==
    /\ pc[t] = "insert"
    /\ IF ~hashlru_is_full(id_to_result)
       THEN /\ pc' = [pc EXCEPT ![t] = "store"]
            /\ UNCHANGED <<id_to_result, mutex, lru_value>>
       ELSE IF hashlru_lru(id_to_result) = None
       THEN /\ PanicLocked(t)
            /\ UNCHANGED <<id_to_result, lru_value>>
       ELSE \E removed \in {hashlru_remove(id_to_result,
                                            Unwrapped(hashlru_lru(id_to_result)))} :
              /\ id_to_result' = removed.cache
              /\ lru_value' = [lru_value EXCEPT ![t] = removed.value]
              /\ IF removed.value = None
                    \/ Unwrapped(removed.value).local_result_file = None
                 THEN PanicLocked(t)
                 ELSE /\ pc' = [pc EXCEPT ![t] = "remove_file"]
                      /\ UNCHANGED mutex
    /\ UNCHANGED <<files, arg, called, clean>>
    /\ UNCHANGED seqVars
    /\ UNCHANGED bootVars

\* lines 158-160 under the lock: remove_file(file_path)...unwrap().
InsertRemoveFile(t, io_error) ==
    /\ pc[t] = "remove_file"
    /\ \E rm \in {remove_file(files,
                       Unwrapped(Unwrapped(lru_value[t]).local_result_file),
                       io_error)} :
         /\ files' = rm.disk
         /\ IF rm.ok
            THEN /\ pc' = [pc EXCEPT ![t] = "store"]
                 /\ UNCHANGED mutex
            ELSE PanicLocked(t)
    /\ UNCHANGED <<id_to_result, arg, lru_value, called, clean>>
    /\ UNCHANGED seqVars
    /\ UNCHANGED bootVars

\* line 162 under the lock: the insertion; insert returns.
InsertStore(t) ==
    /\ pc[t] = "store"
    /\ id_to_result' = hashlru_insert(id_to_result, Unwrapped(arg[t]).request_id,
                                      Unwrapped(arg[t]))
    /\ pc' = [pc EXCEPT ![t] = "return"]
    /\ UNCHANGED <<files, mutex, arg, lru_value, called, clean>>
    /\ UNCHANGED seqVars
    /\ UNCHANGED bootVars

\* results.lock().unwrap().get(&id) / get_mut(&id): the lock is taken and the
\* lookup done; the thread holds the guard while it uses what it has read.
AcquireLookup(t, found) ==
    /\ pc[t] = "idle"
    /\ MutexLockable(mutex)
    /\ mutex' = [mutex EXCEPT !.owner = t]
    /\ id_to_result' = found.cache
    /\ arg' = [arg EXCEPT ![t] = found.value]
    /\ pc' = [pc EXCEPT ![t] = "reading"]
    /\ UNCHANGED <<files, lru_value, called, clean>>
    /\ UNCHANGED seqVars
    /\ UNCHANGED bootVars

AcquireGet(t, id) ==
    \E found \in {ResultsCache_get(id_to_result, id)} : AcquireLookup(t, found)

AcquireGetMut(t, id) ==
    \E found \in {ResultsCache_get_mut(id_to_result, id)} : AcquireLookup(t, found)

\* The guard is dropped at the end of the statement that took the lock.
Release(t) ==
    /\ pc[t] \in {"return", "reading"}
    /\ mutex.owner = t
    /\ mutex' = [mutex EXCEPT !.owner = 0]
    /\ pc' = [pc EXCEPT ![t] = "idle"]
    /\ arg' = [arg EXCEPT ![t] = None]
    /\ lru_value' = [lru_value EXCEPT ![t] = None]
    /\ UNCHANGED <<id_to_result, files, called, clean>>
    /\ UNCHANGED seqVars
    /\ UNCHANGED bootVars

\* lock() on a poisoned mutex returns an error and unwrap() panics.
AcquirePoisoned(t) ==
    /\ pc[t] = "idle"
    /\ mutex.owner = 0 /\ mutex.poisoned
    /\ pc' = [pc EXCEPT ![t] = "panicked"]
    /\ arg' = [arg EXCEPT ![t] = None]
    /\ UNCHANGED <<id_to_result, files, mutex, lru_value, called, clean>>
    /\ UNCHANGED seqVars
    /\ UNCHANGED bootVars

NextConc ==
    \/ \E t \in Threads, result \in Results : AcquireInsert(t, result)
    \/ \E t \in Threads : InsertEvict(t)
    \/ \E t \in Threads, io_error \in BOOLEAN : InsertRemoveFile(t, io_error)
    \/ \E t \in Threads : InsertStore(t)
    \/ \E t \in Threads, id \in Ids : AcquireGet(t, id)
    \/ \E t \in Threads, id \in Ids : AcquireGetMut(t, id)
    \/ \E t \in Threads : Release(t)
    \/ \E t \in Threads : AcquirePoisoned(t)

SpecConc == Init /\ [][NextConc]_vars

\* ------------------------------------------------------------ properties
Entries == id_to_result.entries
Size == Len(Entries)
KeyOrder(c) == [i \in 1..Len(c.entries) |-> c.entries[i].k]
Pos(seq, x) == CHOOSE i \in 1..Len(seq) : seq[i] = x
IsInsert(call) == call.op = "insert"
IsLookup(call) == call.op \in {"get", "get_mut"}
Evicted(call) == Unwrapped(call.evicted)

\* C1: the cache never holds more entries than its capacity, and the capacity
\* is the one given at construction: no call changes it.
C1_CapacityBound ==
    /\ [](Size <= id_to_result.capacity)
    /\ [][id_to_result'.capacity = id_to_result.capacity]_vars
C1_Witness ==
    /\ IsInsert(last) /\ last.ret = "ok" /\ last.was_full
    /\ id_to_result.capacity = MaxCapacity /\ Size = MaxCapacity

\* C2: every insert that evicts removes exactly one entry, the one whose last
\* touch (successful get, get_mut or insert) is the oldest of all cached entries.
C2_EvictsLeastRecentlyTouched ==
    [][(IsInsert(last') /\ last'.evicted # None) =>
         LET ev == Evicted(last').request_id
         IN  /\ ev \in Keys(id_to_result)
             /\ \A k \in Keys(id_to_result) \ {ev} :
                    Pos(recency, ev) < Pos(recency, k)
             /\ Keys(id_to_result) \ {ev} \subseteq Keys(id_to_result')
             /\ Keys(id_to_result') \subseteq (Keys(id_to_result) \ {ev}) \cup {last'.id}
             /\ (ev # last'.id => ev \notin Keys(id_to_result'))]_vars
\* The scripted pattern with capacity 2: insert 1, 2, 3 (evicts 1), get(2),
\* insert 4 evicts 3 and keeps 2.
C2_Witness ==
    /\ id_to_result.capacity = 2
    /\ recency = <<1, 3, 2, 4>>
    /\ IsInsert(last) /\ last.id = 4 /\ last.ret = "ok"
    /\ last.evicted # None /\ Evicted(last).request_id = 3
    /\ KeyOrder(id_to_result) = <<2, 4>>

\* C3: an insert of an identifier that is already cached evicts nothing,
\* deletes no file and leaves the number of entries unchanged.
C3_UpdateEvictsNothing ==
    [][(IsInsert(last') /\ last'.was_present) =>
         /\ last'.evicted = None
         /\ ~last'.rm_attempted
         /\ files \subseteq files'
         /\ Len(id_to_result'.entries) = Size]_vars

\* C4: every cached result whose artifact path is set points to a file that
\* exists on disk.
C4_CachedFilesExist ==
    \A i \in 1..Size :
        Entries[i].v.local_result_file # None =>
            Unwrapped(Entries[i].v.local_result_file) \in files

\* C5: when insert returns normally after evicting an entry that carries an
\* artifact path, that file is absent from the disk and the entry is out of
\* the index.
C5_EvictedFileDeleted ==
    (IsInsert(last) /\ last.ret = "ok" /\ last.evicted # None
       /\ Evicted(last).local_result_file # None) =>
        /\ last.rm_attempted
        /\ Unwrapped(Evicted(last).local_result_file) \notin files
        /\ \A i \in 1..Size : Entries[i].v # Evicted(last) \/ Entries[i].k = last.id
C5_Witness ==
    /\ IsInsert(last) /\ last.ret = "ok" /\ last.evicted # None
    /\ Evicted(last).local_result_file # None
    /\ Evicted(last).request_id # last.id

\* C6: an insert that evicts an entry without artifact path attempts no
\* deletion and returns normally with the new result stored.
C6_EvictsFilelessEntry ==
    (IsInsert(last) /\ last.evicted # None
       /\ Evicted(last).local_result_file = None) =>
        /\ ~last.rm_attempted
        /\ last.ret = "ok"
        /\ last.id \in Keys(id_to_result)

\* C7: get and get_mut of an identifier that is not cached return "not found"
\* and leave the entries, their order and the files as they were.
C7_MissChangesNothing ==
    [][(IsLookup(last') /\ last'.id \notin Keys(id_to_result)) =>
         /\ last'.ret = "notfound"
         /\ id_to_result' = id_to_result
         /\ files' = files]_vars
C7_Witness ==
    /\ last.op = "get_mut" /\ last.ret = "notfound"
    /\ Size = 2 /\ files # {}

\* C8: an insert whose eviction-time file deletion fails does not return
\* normally.
C8_DeletionFailureNotSwallowed ==
    last.rm_failed => (last.ret = "panic" /\ panicked)
C8_Witness ==
    /\ IsInsert(last) /\ last.rm_failed
    /\ Unwrapped(Evicted(last).local_result_file) \in files

\* Thread u has removed an entry from the index and the entry's artifact is
\* still on disk: its eviction is under way, or it died in it.
InLimbo(u) ==
    /\ pc[u] \in {"remove_file", "panicked"}
    /\ lru_value[u] # None
    /\ Unwrapped(lru_value[u]).local_result_file # None
    /\ Unwrapped(Unwrapped(lru_value[u]).local_result_file) \in files
    /\ Unwrapped(lru_value[u]).request_id \notin Keys(id_to_result)

\* C9: a thread that holds the cache lock never sees an entry that another
\* thread's eviction has removed from the index while its artifact file is
\* still on disk.
C9_NoHalfEvictedEntryObserved ==
    \A t \in Threads, u \in Threads :
        (t # u /\ mutex.owner = t) => ~InLimbo(u)
\* An eviction is in its window (entry out of the index, file not yet deleted)
\* under the evictor's lock while another thread is waiting to use the cache.
C9_Witness ==
    \E t \in Threads, u \in Threads :
        /\ t # u
        /\ pc[u] = "remove_file" /\ InLimbo(u) /\ mutex.owner = u
        /\ pc[t] = "idle"
        /\ Size > 0

\* The insert call c has returned.
Returned(c) ==
    ~(pc[c.thread] \in {"insert", "remove_file", "store"}
        /\ arg[c.thread] = Some(c.result))

\* C10: while the insert calls made so far were for distinct identifiers, at
\* most capacity many, none of them has failed and every one that has
\* returned is retrievable with get.
C10_NoLostInsert ==
    clean =>
        /\ \A t \in Threads : pc[t] # "panicked"
        /\ \A c \in called :
              Returned(c) =>
                  ResultsCache_get(id_to_result, c.result.request_id).value
                      = Some(c.result)
C10_Witness ==
    /\ clean
    /\ id_to_result.capacity = MaxCapacity
    /\ Cardinality(called) = MaxCapacity
    /\ Cardinality({c.thread : c \in called}) > 1
    /\ \A t \in Threads : pc[t] = "idle"

\* The file thread t's eviction is about to delete.
DeletionTarget(t) == Unwrapped(Unwrapped(lru_value[t]).local_result_file)

\* C11: no eviction attempts to delete a file that has been deleted already.
\* (A cached entry's file was written when the entry was inserted and only an
\* eviction deletes files, so a target that is not on disk is a file that an
\* earlier eviction has deleted.)
C11_NoDoubleDelete ==
    \A t \in Threads : pc[t] = "remove_file" => DeletionTarget(t) \in files

\* Thread t holds the guard and, through it, a reference to a cached entry.
Reading(t) == pc[t] = "reading" /\ arg[t] # None
InInsert(u) == pc[u] \in {"insert", "remove_file", "store", "return"}

\* C12: while a reader holds an entry it has obtained with get / get_mut, no
\* insert is under way, the entry stays in the index and neither the index
\* nor the files change: no eviction takes effect before the reader releases.
C12_NoEvictionDuringRead ==
    /\ [](\A t \in Threads :
            Reading(t) =>
              /\ \A u \in Threads : ~InInsert(u)
              /\ \E i \in 1..Size :
                    Entries[i] = [k |-> Unwrapped(arg[t]).request_id,
                                  v |-> Unwrapped(arg[t])])
    /\ [][\A t \in Threads :
            (Reading(t) /\ pc'[t] = "reading") =>
                (id_to_result' = id_to_result /\ files' = files)]_vars
\* A reader holds an entry with an artifact in a full cache (the next insert
\* evicts) while another thread is ready to call insert.
C12_Witness ==
    \E t \in Threads, u \in Threads :
        /\ t # u /\ Reading(t) /\ pc[u] = "idle"
        /\ Size = id_to_result.capacity /\ Size = MaxCapacity
        /\ Unwrapped(arg[t]).local_result_file # None
        /\ Unwrapped(Unwrapped(arg[t]).local_result_file) \in files


\* ---------------------------------------------------------------------------
\* AppState::new
\* ---------------------------------------------------------------------------

Ok(x) == [ok |-> TRUE, value |-> x]
Err == [ok |-> FALSE, value |-> None]

\* Paths under the root directory: the results directory, what an earlier run
\* left in it, and the files next to it.
ResultsDir == <<"results">>
StaleFiles == {<<"results", n>> : n \in 1..MaxStale}
Database == <<"webgwas.db">>
FitQualityFile == <<"fit_quality.parquet">>
OtherFiles == {Database, FitQualityFile}
InResults(path) == path = ResultsDir \/ path \in StaleFiles
DiskStates ==
    {other \cup dir : other \in SUBSET OtherFiles,
                      dir \in {{}} \cup {{ResultsDir} \cup stale : stale \in SUBSET StaleFiles}}

\* std::fs: exists, remove_dir_all, create_dir_all.  A failing remove_dir_all
\* may have deleted some of the directory's contents already.
fs_exists(fs, path) == path \in fs
remove_dir_all(fs, io_error, gone) ==
    IF io_error THEN [ok |-> FALSE, fs |-> fs \ gone]
    ELSE [ok |-> TRUE, fs |-> {path \in fs : ~InResults(path)}]
create_dir_all(fs, io_error) ==
    IF io_error THEN [ok |-> FALSE, fs |-> fs]
    ELSE [ok |-> TRUE, fs |-> fs \cup {ResultsDir}]

\* The rows of the cohort table and of the fit quality file.
CohortIds == 1..NumCohortIds
Cohort == [id : {None} \cup {Some(i) : i \in CohortIds}]
RECURSIVE SeqsUpTo(_, _)
SeqsUpTo(S, n) ==
    IF n = 0 THEN {<<>>}
    ELSE LET shorter == SeqsUpTo(S, n - 1)
         IN  shorter \cup {Append(q, x) : q \in {r \in shorter : Len(r) = n - 1}, x \in S}
CohortTables == SeqsUpTo(Cohort, MaxCohorts)
GwasR2 == {None, Some(1), Some(2)}
PhenotypeR2 == {None, Some(3)}
FitRow == [gwas_r2 : GwasR2, phenotype_r2 : PhenotypeR2]
FitTables == SeqsUpTo(FitRow, MaxRows)

\* cohorts.into_iter().map(|cohort| CohortData::load(cohort, &root))
\*     .collect::<Result<Vec<CohortData>>>()?
CohortData_load(cohort, io_error) == IF io_error THEN Err ELSE Ok([cohort |-> cohort])
collect_results_lenient(loaded) ==
    Ok(SelectSeq([i \in 1..Len(loaded) |-> loaded[i].value], LAMBDA d : d # None))
collect_results(loaded) ==
    IF \E i \in 1..Len(loaded) : ~loaded[i].ok THEN Err
    ELSE Ok([i \in 1..Len(loaded) |-> loaded[i].value])

\* .map(|cohort_data| (cohort_data.cohort.id.expect(..), Arc::new(cohort_data)))
\*     .collect::<HashMap<i32, Arc<CohortData>>>()
\* A map is a function on its key set; a later pair replaces an earlier one
\* with the same key.  The expect panics when a cohort has no id.
RECURSIVE collect_hashmap(_, _)
collect_hashmap(map, pairs) ==
    IF pairs = <<>> THEN map
    ELSE LET k == Head(pairs)[1]
             v == Head(pairs)[2]
         IN  collect_hashmap([x \in DOMAIN map \cup {k} |-> IF x = k THEN v ELSE map[x]],
                             Tail(pairs))
EmptyMap == [x \in {} |-> None]
cohort_id_to_data_by_position(cohorts) ==
    IF \E i \in 1..Len(cohorts) : cohorts[i].cohort.id = None
    THEN [panic |-> TRUE, map |-> EmptyMap]
    ELSE [panic |-> FALSE,
          map |-> collect_hashmap(EmptyMap, [i \in 1..Len(cohorts) |-> <<i, cohorts[i]>>])]
cohort_id_to_data(cohorts) ==
    IF \E i \in 1..Len(cohorts) : cohorts[i].cohort.id = None
    THEN [panic |-> TRUE, map |-> EmptyMap]
    ELSE [panic |-> FALSE,
          map |-> collect_hashmap(EmptyMap,
                     [i \in 1..Len(cohorts) |->
                         <<Unwrapped(cohorts[i].cohort.id), cohorts[i]>>])]

\* HashMap::get on the registry.
HashMap_get(map, id) == IF id \in DOMAIN map THEN Some(map[id]) ELSE None

\* The zip of the two columns, a pair per row, None as soon as a value is null.
PhenotypeFitQuality(p, g) == [phenotype_fit_quality |-> p, gwas_fit_quality |-> g]
fit_quality_reference_skip_nulls(rows) ==
    LET full == SelectSeq(rows, LAMBDA r : r.gwas_r2 # None /\ r.phenotype_r2 # None)
    IN  Some([i \in 1..Len(full) |->
                PhenotypeFitQuality(Unwrapped(full[i].phenotype_r2), Unwrapped(full[i].gwas_r2))])
fit_quality_reference(rows) ==
    IF \E i \in 1..Len(rows) : rows[i].gwas_r2 = None \/ rows[i].phenotype_r2 = None
    THEN None
    ELSE Some([i \in 1..Len(rows) |->
                PhenotypeFitQuality(Unwrapped(rows[i].phenotype_r2), Unwrapped(rows[i].gwas_r2))])

\* How a fallible step ends: `?` (and the explicit `return Err(..)` of the
\* directory removal) returns an error, expect / unwrap panic.
try(ok) == IF ok THEN "running" ELSE "err"
expect(ok) == IF ok THEN "running" ELSE "panic"

\* if results_directory_exists { remove_dir_all(..) or return Err } (lines 49-57)
clear_results_lenient(fs, exists, io_error, gone) ==
    IF ~exists THEN [outcome |-> "running", fs |-> fs]
    ELSE [outcome |-> "running", fs |-> remove_dir_all(fs, io_error, gone).fs]
clear_results(fs, exists, io_error, gone) ==
    IF ~exists THEN [outcome |-> "running", fs |-> fs]
    ELSE LET removed == remove_dir_all(fs, io_error, gone)
         IN  [outcome |-> try(removed.ok), fs |-> removed.fs]

Start ==
    [pc |-> "home", outcome |-> "running", faults |-> {},
     home |-> None, results_directory_exists |-> None, stale |-> {}, db |-> None,
     cohorts |-> None, cohort_id_to_data |-> None, knowledge_base |-> None,
     s3_client |-> None, fit_rows |-> None, fit_quality_reference |-> None,
     results |-> None, app |-> None, lookup |-> None]

InitStartup ==
    /\ InitCache(0)
    /\ boot = Start
    /\ rootfs \in DiskStates

At(step) == boot.pc = step /\ boot.outcome = "running"

\* The end of a step: on "running" the function goes on to the next step with
\* the locals it has built, otherwise it returns or unwinds where it is.
\* faults records the steps at which something failed, stale what the results
\* directory held when the function looked for it (both history).
Proceed(step, fault, outcome, next, seen, built) ==
    boot' = IF outcome = "running"
            THEN [built EXCEPT !.pc = next,
                               !.faults = IF fault THEN @ \cup {step} ELSE @]
            ELSE [seen EXCEPT !.outcome = outcome,
                              !.faults = IF fault THEN @ \cup {step} ELSE @]

ReadHome ==
    /\ At("home")
    /\ \E home \in {None, Some("home")} :
          Proceed("home", home = None, expect(home # None), "exists",
                  boot, [boot EXCEPT !.home = home])
    /\ UNCHANGED <<rootfs, cacheVars>>

ResultsDirectoryExists ==
    /\ At("exists")
    /\ \E io_error \in BOOLEAN :
          Proceed("exists", io_error, try(~io_error), "remove_dir_all", boot,
                  [boot EXCEPT !.results_directory_exists = Some(fs_exists(rootfs, ResultsDir)),
                               !.stale = rootfs \cap StaleFiles])
    /\ UNCHANGED <<rootfs, cacheVars>>

ClearResults ==
    /\ At("remove_dir_all")
    /\ LET exists == Unwrapped(boot.results_directory_exists)
       IN  \E io_error \in (IF exists THEN BOOLEAN ELSE {FALSE}) :
           \E gone \in (IF io_error THEN SUBSET (rootfs \cap StaleFiles) ELSE {{}}) :
           \E cleared \in {clear_results(rootfs, exists, io_error, gone)} :
               /\ rootfs' = cleared.fs
               /\ Proceed("remove_dir_all", io_error, cleared.outcome,
                          "create_dir_all", boot, boot)
    /\ UNCHANGED cacheVars

CreateResults ==
    /\ At("create_dir_all")
    /\ \E io_error \in BOOLEAN :
       \E created \in {create_dir_all(rootfs, io_error)} :
           /\ rootfs' = created.fs
           /\ Proceed("create_dir_all", io_error, try(created.ok), "connect", boot, boot)
    /\ UNCHANGED cacheVars

Connect ==
    /\ At("connect")
    /\ \E db_error \in BOOLEAN :
          Proceed("connect", db_error, try(~db_error), "pragmas",
                  boot, [boot EXCEPT !.db = Some("pool")])
    /\ UNCHANGED <<rootfs, cacheVars>>

Pragmas ==
    /\ At("pragmas")
    /\ \E db_error \in BOOLEAN :
          Proceed("pragmas", db_error, try(~db_error), "cohorts", boot, boot)
    /\ UNCHANGED <<rootfs, cacheVars>>

\* Lines 75-89: the cohort rows are fetched, each cohort is loaded, and the
\* registry is built from the loaded cohorts.
LoadCohorts ==
    /\ At("cohorts")
    /\ \E db_error \in BOOLEAN :
       \E table \in (IF db_error THEN {<<>>} ELSE CohortTables) :
       \E failing \in SUBSET (1..Len(table)) :
          LET loaded == [i \in 1..Len(table) |-> CohortData_load(table[i], i \in failing)]
              collected == collect_results(loaded)
              built == IF collected.ok THEN cohort_id_to_data(collected.value)
                       ELSE [panic |-> FALSE, map |-> EmptyMap]
              outcome == IF try(~db_error) # "running" THEN try(~db_error)
                         ELSE IF try(collected.ok) # "running" THEN try(collected.ok)
                         ELSE expect(~built.panic)
              seen == IF db_error THEN boot
                      ELSE [boot EXCEPT !.cohorts = Some([rows |-> table, failing |-> failing])]
          IN  Proceed("cohorts",
                      db_error \/ failing # {} \/ \E i \in 1..Len(table) : table[i].id = None,
                      outcome, "features", seen,
                      [seen EXCEPT !.cohort_id_to_data = Some(built.map)])
    /\ UNCHANGED <<rootfs, cacheVars>>

\* Lines 91-98: the feature rows are fetched (unwrap) and the knowledge base
\* is built from them.
LoadFeatures ==
    /\ At("features")
    /\ \E db_error \in BOOLEAN :
          Proceed("features", db_error, expect(~db_error), "s3", boot,
                  [boot EXCEPT !.knowledge_base = Some("kb")])
    /\ UNCHANGED <<rootfs, cacheVars>>

S3Client ==
    /\ At("s3")
    /\ Proceed("s3", FALSE, "running", "fit_quality", boot,
               [boot EXCEPT !.s3_client = Some("client")])
    /\ UNCHANGED <<rootfs, cacheVars>>

\* Lines 104-122: the parquet file is opened and read, its two columns are
\* zipped into the reference.
LoadFitQuality ==
    /\ At("fit_quality")
    /\ \E io_error \in BOOLEAN :
       \E rows \in (IF io_error \/ FitQualityFile \notin rootfs THEN {<<>>} ELSE FitTables) :
          LET unreadable == io_error \/ FitQualityFile \notin rootfs
              reference == fit_quality_reference(rows)
              outcome == IF try(~unreadable) # "running" THEN try(~unreadable)
                         ELSE try(reference # None)
              seen == IF unreadable THEN boot ELSE [boot EXCEPT !.fit_rows = Some(rows)]
          IN  Proceed("fit_quality",
                      unreadable \/ \E i \in 1..Len(rows) :
                                        rows[i].gwas_r2 = None \/ rows[i].phenotype_r2 = None,
                      outcome, "results", seen,
                      [seen EXCEPT !.fit_quality_reference = reference])
    /\ UNCHANGED <<rootfs, cacheVars>>

\* Line 124: ResultsCache::new(settings.cache_capacity).
NewResults ==
    /\ At("results")
    /\ \E capacity \in Capacities :
          Proceed("results", FALSE, "running", "state", boot,
                  [boot EXCEPT !.results = Some(ResultsCache_new(capacity))])
    /\ UNCHANGED <<rootfs, cacheVars>>

\* Lines 126-138: the state is assembled from the locals and returned.
AppState(b) ==
    [root |-> Unwrapped(b.home),
     db |-> Unwrapped(b.db),
     knowledge_base |-> Unwrapped(b.knowledge_base),
     s3_client |-> Unwrapped(b.s3_client),
     cohort_id_to_data |-> Unwrapped(b.cohort_id_to_data),
     fit_quality_reference |-> Unwrapped(b.fit_quality_reference),
     queue |-> <<>>,
     results |-> Unwrapped(b.results)]

ReturnState ==
    /\ At("state")
    /\ boot' = [boot EXCEPT !.app = Some(AppState(boot)), !.outcome = "ok", !.pc = "done"]
    /\ UNCHANGED <<rootfs, cacheVars>>

\* A handler looks a cohort up in the registry of the running application.
CohortLookup(id) ==
    /\ boot.outcome = "ok"
    /\ boot.app # None
    /\ boot' = [boot EXCEPT !.lookup =
                   Some([id |-> id,
                         found |-> HashMap_get(Unwrapped(boot.app).cohort_id_to_data, id)])]
    /\ UNCHANGED <<rootfs, cacheVars>>

NextStartup ==
    \/ ReadHome
    \/ ResultsDirectoryExists
    \/ ClearResults
    \/ CreateResults
    \/ Connect
    \/ Pragmas
    \/ LoadCohorts
    \/ LoadFeatures
    \/ S3Client
    \/ LoadFitQuality
    \/ NewResults
    \/ ReturnState
    \/ \E id \in CohortIds : CohortLookup(id)

SpecStartup == InitStartup /\ [][NextStartup]_vars

\* The steps of AppState::new, and the locals the state is assembled from.
Steps == {"home", "exists", "remove_dir_all", "create_dir_all", "connect", "pragmas",
          "cohorts", "features", "s3", "fit_quality", "results", "state"}
Locals(b) == <<b.home, b.db, b.knowledge_base, b.s3_client, b.cohort_id_to_data,
               b.fit_quality_reference, b.results>>

\* C13: AppState::new is all-or-nothing.  An application state exists only as
\* the value of a successful return, after no step has failed: every local it
\* is assembled from has been built, every cohort row read is in the registry,
\* the cache is empty.  Once a step has failed, a single cohort's load
\* included, the function has ended without a state value.
C13_AllOrNothing ==
    /\ boot.app # None <=> boot.outcome = "ok"
    /\ boot.app # None =>
          /\ boot.faults = {}
          /\ \A i \in 1..Len(Locals(boot)) : Locals(boot)[i] # None
          /\ Unwrapped(boot.app) = AppState(boot)
          /\ Unwrapped(boot.cohorts).failing = {}
          /\ \A i \in 1..Len(Unwrapped(boot.cohorts).rows) :
                /\ Unwrapped(boot.cohorts).rows[i].id # None
                /\ Unwrapped(Unwrapped(boot.cohorts).rows[i].id)
                      \in DOMAIN Unwrapped(boot.app).cohort_id_to_data
          /\ Unwrapped(boot.app).queue = <<>>
          /\ Unwrapped(boot.app).results.entries = <<>>
    /\ boot.faults # {} => boot.app = None /\ boot.outcome \in {"err", "panic"}
C13_Witness ==
    /\ boot.cohorts # None
    /\ Len(Unwrapped(boot.cohorts).rows) = MaxCohorts
    /\ Cardinality(Unwrapped(boot.cohorts).failing) = 1
    /\ boot.faults = {"cohorts"}
    /\ boot.outcome = "err"
    /\ boot.app = None

\* C14: a successful startup leaves the results directory existing and empty,
\* whatever it held before; the cleanup steps leave every path outside the
\* results directory as it was; a failed removal of the old directory ends the
\* startup with an error, at that step.
Outside(fs) == {path \in fs : ~InResults(path)}
Cleanup == {"home", "exists", "remove_dir_all", "create_dir_all"}
C14_ResultsDirectoryCleared ==
    /\ [](boot.outcome = "ok" => ResultsDir \in rootfs /\ rootfs \cap StaleFiles = {})
    /\ []("remove_dir_all" \in boot.faults =>
              boot.outcome = "err" /\ boot.pc = "remove_dir_all" /\ boot.app = None)
    /\ [][boot.pc \in Cleanup => Outside(rootfs') = Outside(rootfs)]_vars
C14_Witness ==
    /\ boot.outcome = "ok"
    /\ boot.results_directory_exists = Some(TRUE)
    /\ boot.stale = StaleFiles
    /\ ResultsDir \in rootfs
    /\ rootfs \cap StaleFiles = {}
    /\ Outside(rootfs) = OtherFiles

\* C15: when the home location cannot be determined, AppState::new ends by
\* returning an error to its caller, as it does for the other startup errors.
C15_MissingHomeIsReturnedError ==
    "home" \in boot.faults => boot.outcome = "err"

HasNull(row) == row.gwas_r2 = None \/ row.phenotype_r2 = None

\* C16: once the fit quality rows have been read, either a row has a null, and
\* then startup has failed with an error and no reference exists, in a local
\* or in a state, or no row has one, and then the reference holds row i's
\* (phenotype_r2, gwas_r2) pair at position i, for every row.
C16_FitQualityAllOrNothing ==
    boot.fit_rows # None =>
        LET rows == Unwrapped(boot.fit_rows)
        IN  IF \E i \in 1..Len(rows) : HasNull(rows[i])
            THEN /\ boot.outcome = "err"
                 /\ boot.fit_quality_reference = None
                 /\ boot.app = None
            ELSE /\ boot.fit_quality_reference # None
                 /\ LET reference == Unwrapped(boot.fit_quality_reference)
                    IN  /\ Len(reference) = Len(rows)
                        /\ \A i \in 1..Len(rows) :
                              /\ Some(reference[i].phenotype_fit_quality) = rows[i].phenotype_r2
                              /\ Some(reference[i].gwas_fit_quality) = rows[i].gwas_r2
                        /\ boot.app # None =>
                              Unwrapped(boot.app).fit_quality_reference = reference
C16_Witness ==
    /\ boot.fit_rows # None
    /\ Len(Unwrapped(boot.fit_rows)) = MaxRows
    /\ \A i \in 1..(MaxRows - 1) : ~HasNull(Unwrapped(boot.fit_rows)[i])
    /\ Unwrapped(boot.fit_rows)[MaxRows].gwas_r2 # None
    /\ Unwrapped(boot.fit_rows)[MaxRows].phenotype_r2 = None
    /\ boot.outcome = "err"
    /\ boot.faults = {"fit_quality"}

\* The identifiers of the cohort rows that were loaded.
LoadedIds == {Unwrapped(Unwrapped(boot.cohorts).rows[i].id) :
                 i \in 1..Len(Unwrapped(boot.cohorts).rows)}
Registry == Unwrapped(boot.app).cohort_id_to_data

\* C17: after a successful startup the registry's keys are the identifiers of
\* the loaded cohorts, each key maps to the data of a cohort with that
\* identifier, N cohorts with distinct identifiers give N entries, and a lookup
\* returns the entry of a loaded identifier and nothing, without aborting, for
\* any other identifier.
C17_RegistryOnePerCohort ==
    boot.outcome = "ok" =>
        /\ DOMAIN Registry = LoadedIds
        /\ \A id \in DOMAIN Registry :
              /\ Registry[id].cohort.id = Some(id)
              /\ \E i \in 1..Len(Unwrapped(boot.cohorts).rows) :
                    Registry[id].cohort = Unwrapped(boot.cohorts).rows[i]
        /\ Cardinality(LoadedIds) = Len(Unwrapped(boot.cohorts).rows) =>
              Cardinality(DOMAIN Registry) = Len(Unwrapped(boot.cohorts).rows)
        /\ boot.lookup # None =>
              Unwrapped(boot.lookup).found =
                  IF Unwrapped(boot.lookup).id \in LoadedIds
                  THEN Some(Registry[Unwrapped(boot.lookup).id])
                  ELSE None
C17_Witness ==
    /\ boot.outcome = "ok"
    /\ Len(Unwrapped(boot.cohorts).rows) = MaxCohorts
    /\ Cardinality(DOMAIN Registry) = MaxCohorts
    /\ boot.lookup # None
    /\ Unwrapped(boot.lookup).id \notin LoadedIds
    /\ Unwrapped(boot.lookup).found = None

\* The artifact files that cached entries refer to.
Referenced == UNION {ArtifactOf(Entries[i].v) : i \in 1..Size}

\* C18: as long as every insert has returned normally, every artifact file on
\* disk is the artifact of an entry in the cache.
C18_NoOrphanedArtifact ==
    ~panicked => files \subseteq Referenced

\* An insert panics in this step while evicting an entry: the entry has no
\* artifact path, or the deletion of its file fails.
EvictionFails ==
    /\ ~panicked /\ panicked'
    /\ last'.evicted # None

\* C19 (as claimed): an insert that fails during eviction leaves the index
\* exactly as it was before the insert, the entry it tried to evict still in
\* it and retrievable.
C19_FailedEvictionLeavesIndex ==
    [][EvictionFails =>
          /\ id_to_result' = id_to_result
          /\ ResultsCache_get(id_to_result', Unwrapped(last'.evicted).request_id).value
                = last'.evicted]_vars

\* C19 (amended): an insert that fails during eviction panics after the least
\* recently used entry has been removed from the index: the index is the one
\* before the insert without that entry, which is no longer retrievable, the
\* new result is not stored, and no file is deleted.
C19_FailedEvictionDropsEntry ==
    [][EvictionFails =>
          /\ Size >= 1
          /\ last'.evicted = Some(Entries[1].v)
          /\ id_to_result'.capacity = id_to_result.capacity
          /\ id_to_result'.entries = Tail(Entries)
          /\ ResultsCache_get(id_to_result', Unwrapped(last'.evicted).request_id).value = None
          /\ files \subseteq files'
          /\ last'.ret = "panic"]_vars
C19_Witness ==
    /\ panicked
    /\ IsInsert(last) /\ last.ret = "panic"
    /\ last.evicted # None /\ last.rm_failed
    /\ Unwrapped(last.evicted).request_id \notin Keys(id_to_result)
    /\ last.id \notin Keys(id_to_result)
    /\ Unwrapped(Unwrapped(last.evicted).local_result_file) \in files
    /\ Size = MaxCapacity - 1

\* C20: with capacity at least 1, after insert(r) returns normally get of r's
\* identifier returns r, the index holds exactly one entry for the identifier,
\* and that entry is the most recently used one; with capacity at least 2, an
\* insert that follows at once and evicts does not evict that entry.
C20_InsertedIsRetrievableAndNewest ==
    /\ []((IsInsert(last) /\ last.ret = "ok" /\ id_to_result.capacity >= 1) =>
             /\ ResultsCache_get(id_to_result, last.id).value = last.result
             /\ Cardinality({i \in 1..Size : Entries[i].k = last.id}) = 1
             /\ Entries[Size] = [k |-> last.id, v |-> Unwrapped(last.result)])
    /\ [][( /\ IsInsert(last) /\ last.ret = "ok"
            /\ IsInsert(last') /\ last'.ret = "ok"
            /\ last'.evicted # None
            /\ id_to_result.capacity >= 2 ) =>
             Unwrapped(last'.evicted).request_id # last.id]_vars
C20_Witness ==
    /\ IsInsert(last) /\ last.ret = "ok"
    /\ last.was_full /\ last.was_present
    /\ last.evicted # None
    /\ Unwrapped(last.evicted).request_id # last.id
    /\ id_to_result.capacity = MaxCapacity
    /\ Size = MaxCapacity - 1
    /\ Entries[Size].k = last.id
    /\ ResultsCache_get(id_to_result, last.id).value = Some(Entries[Size].v)

====
